---- MODULE Spec2Model ----
(***************************************************************************)
(* Model of stocks_dashboard.py: the data normalisation and metrics        *)
(* pipeline (process_data, normalize_column_names, calculate_metrics,      *)
(* add_technical_indicators) and the script that drives it (the main-chart *)
(* branch guarded by the Update button and the watchlist loop).            *)
(*                                                                         *)
(* A column label is a sequence of one-character strings, so that Python's *)
(* substring test ('Open' in col), ' '.join and str.strip are computed on  *)
(* characters.  A table is column-oriented, like a pandas DataFrame: an    *)
(* index (kind, name, timezone, values) and a sequence of columns (name,   *)
(* kind, timezone, values).  Numbers are counted in units of 1/Scale, so   *)
(* that int() has something to truncate.                                   *)
(***************************************************************************)
EXTENDS Integers, Sequences, FiniteSets, TLC

VARIABLES pc, raw, data, again, metrics, chart_type, status, stages,
          fetched, display, wi, watchlog

vars == <<pc, raw, data, again, metrics, chart_type, status, stages,
          fetched, display, wi, watchlog>>

(***************************************************************************)
(* Bounds of the model.                                                    *)
(***************************************************************************)
MaxRows == 5
MaxWatchRows == 2
MaxNormRows == 1
MaxMetricRows == 3
MaxVal == 2

(***************************************************************************)
(* Constants of the program.                                               *)
(***************************************************************************)
\* window=20 of sma_indicator and ema_indicator
Window == 20
\* len(data) >= 5 of the chart-type test
CandleMin == 5
\* len(data) < 2 of the insufficient-data test
MinRows == 2
\* Numbers are counted in units of 1/Scale.
Scale == 2

(***************************************************************************)
(* Column labels.                                                          *)
(***************************************************************************)
kOpen == <<"O", "p", "e", "n">>
kHigh == <<"H", "i", "g", "h">>
kLow == <<"L", "o", "w">>
kClose == <<"C", "l", "o", "s", "e">>
kVolume == <<"V", "o", "l", "u", "m", "e">>
kAdjClose == <<"A", "d", "j", " ", "C", "l", "o", "s", "e">>
kDate == <<"D", "a", "t", "e">>
kDatetime == <<"D", "a", "t", "e", "t", "i", "m", "e">>
kIndex == <<"i", "n", "d", "e", "x">>
kLevel0 == <<"l", "e", "v", "e", "l", "_", "0">>
kTs == <<"t", "s">>
kSMA20 == <<"S", "M", "A", "_", "2", "0">>
kEMA20 == <<"E", "M", "A", "_", "2", "0">>
\* The index of a DataFrame may have no name (None).
NoName == <<>>

\* Ticker symbols as they appear in the second level of the raw columns.
sXYZ == <<"X", "Y", "Z">>
sLOW == <<"L", "O", "W">>
sOpen == <<"O", "p", "e", "n">>
sALow == <<"a", "L", "o", "w">>
sBlank == <<" ">>
sAAPL == <<"A", "A", "P", "L">>
sGOOGL == <<"G", "O", "O", "G", "L">>
sAMZN == <<"A", "M", "Z", "N">>
sMSFT == <<"M", "S", "F", "T">>

(***************************************************************************)
(* Python string operations on labels.                                     *)
(***************************************************************************)
\* sub in s
Contains(s, sub) ==
    \E i \in 0..(Len(s) - Len(sub)) : SubSeq(s, i + 1, i + Len(sub)) = sub

IsSpace(c) == c = " "

\* s.strip()
RECURSIVE LStrip(_)
LStrip(s) == IF s # <<>> /\ IsSpace(Head(s)) THEN LStrip(Tail(s)) ELSE s

RECURSIVE RStrip(_)
RStrip(s) ==
    IF s # <<>> /\ IsSpace(s[Len(s)]) THEN RStrip(SubSeq(s, 1, Len(s) - 1)) ELSE s

Strip(s) == LStrip(RStrip(s))

\* ' '.join(col) for a two-level column key col = (field, symbol)
JoinSpace(col) == col[1] \o <<" ">> \o col[2]

(***************************************************************************)
(* Results of a call: a value, or the exception it raised.                 *)
(***************************************************************************)
Ok(v) == [ok |-> TRUE, err |-> "none", val |-> v]
Raise(e) == [ok |-> FALSE, err |-> e, val |-> <<>>]

(***************************************************************************)
(* Tables.                                                                 *)
(***************************************************************************)
NumCol(name, vals) == [name |-> name, kind |-> "num", tz |-> "-", vals |-> vals]
TsCol(name, tz, vals) == [name |-> name, kind |-> "ts", tz |-> tz, vals |-> vals]

ColName(c) == c.name
Names(t) == [i \in 1..Len(t.cols) |-> ColName(t.cols[i])]
NameSet(t) == {t.cols[i].name : i \in 1..Len(t.cols)}
NRows(t) == Len(t.index.vals)
\* number of columns of t labelled name
Count(t, name) == Cardinality({i \in 1..Len(t.cols) : t.cols[i].name = name})
\* the positions of the columns labelled name, in order
Positions(t, name) == {i \in 1..Len(t.cols) : t.cols[i].name = name}

\* DataFrame.empty: some axis has length 0
IsEmpty(t) == NRows(t) = 0 \/ Len(t.cols) = 0

NoTable == [multi |-> FALSE,
            index |-> [kind |-> "none", name |-> NoName, tz |-> "-", vals |-> <<>>],
            cols |-> <<>>]

\* data.rename(columns={old: new}): every column labelled old is relabelled
RenameOne(old, new, c) == IF c.name = old THEN [c EXCEPT !.name = new] ELSE c

Rename(t, old, new) ==
    [t EXCEPT !.cols = [i \in 1..Len(t.cols) |-> RenameOne(old, new, t.cols[i])]]

\* data.columns = [' '.join(col).strip() for col in data.columns.values]
FlattenName(c) == [c EXCEPT !.name = Strip(JoinSpace(c.name))]

Flatten(t) ==
    IF t.multi
    THEN [t EXCEPT !.multi = FALSE, !.cols = [i \in 1..Len(t.cols) |-> FlattenName(t.cols[i])]]
    ELSE t

\* data.index.tz_localize('UTC') when naive, then tz_convert('US/Eastern'):
\* the instants are kept, the zone label becomes US/Eastern.
TzFix(t) == [t EXCEPT !.index.tz = "US/Eastern"]

\* The label reset_index gives the promoted index.
ResetName(t) ==
    IF t.index.name # NoName THEN t.index.name
    ELSE IF kIndex \notin NameSet(t) THEN kIndex ELSE kLevel0

\* data.reset_index(inplace=True): the index becomes the first column and a
\* RangeIndex takes its place; ValueError when the label is already a column.
ResetIndex(t) ==
    IF ResetName(t) \in NameSet(t)
    THEN Raise("ValueError")
    ELSE Ok([t EXCEPT
              !.index = [kind |-> "range", name |-> NoName, tz |-> "-",
                         vals |-> [i \in 1..NRows(t) |-> i - 1]],
              !.cols = <<TsCol(ResetName(t), t.index.tz, t.index.vals)>> \o t.cols])

\* Variant of PromoteRename without the elif branch: only an index named
\* Date is renamed.
PromoteRenameDateOnly(t) ==
    IF kDate \in NameSet(t) THEN Rename(t, kDate, kDatetime) ELSE t

\* The renaming of the promoted index column (the if/elif after reset_index).
PromoteRename(t) ==
    IF kDate \in NameSet(t) THEN Rename(t, kDate, kDatetime)
    ELSE IF kDatetime \notin NameSet(t) THEN Rename(t, t.cols[1].name, kDatetime)
    ELSE t

\* Variant of process_data that skips the timezone fix-up on an index that
\* carries no tzinfo attribute instead of raising.
process_data_lenient(t) ==
    LET f == IF t.index.kind = "datetime" THEN TzFix(Flatten(t)) ELSE Flatten(t)
        r == ResetIndex(f)
    IN  IF r.ok THEN Ok(PromoteRename(r.val)) ELSE r

process_data(t) ==
    IF t.index.kind # "datetime"
    THEN Raise("AttributeError")
    ELSE LET r == ResetIndex(TzFix(Flatten(t)))
         IN  IF r.ok THEN Ok(PromoteRename(r.val)) ELSE r

\* Variant of CanonicalName whose chain lacks the 'Close' branch.
CanonicalNameNoClose(col) ==
    IF Contains(col, kOpen) THEN kOpen
    ELSE IF Contains(col, kHigh) THEN kHigh
    ELSE IF Contains(col, kLow) THEN kLow
    ELSE IF Contains(col, kVolume) THEN kVolume
    ELSE col

\* The if/elif chain of normalize_column_names: the canonical name of a
\* label, or the label itself when no substring matches.
CanonicalName(col) ==
    IF Contains(col, kOpen) THEN kOpen
    ELSE IF Contains(col, kHigh) THEN kHigh
    ELSE IF Contains(col, kLow) THEN kLow
    ELSE IF Contains(col, kClose) THEN kClose
    ELSE IF Contains(col, kVolume) THEN kVolume
    ELSE col

CanonicalCol(c) == [c EXCEPT !.name = CanonicalName(c.name)]

normalize_column_names(t) ==
    [t EXCEPT !.cols = [i \in 1..Len(t.cols) |-> CanonicalCol(t.cols[i])]]

\* The Normalizer: process_data, then normalize_column_names.
Normalizer(t) ==
    LET r == process_data(t)
    IN  IF r.ok THEN Ok(normalize_column_names(r.val)) ELSE r

(***************************************************************************)
(* calculate_metrics.                                                      *)
(***************************************************************************)
\* data[name]: a Series when exactly one column carries the label, KeyError
\* when none does; with several, a DataFrame, whose scalar reductions and
\* .iloc rows are Series that float() and int() refuse (TypeError).
Column(t, name) ==
    IF Count(t, name) = 0 THEN Raise("KeyError")
    ELSE IF Count(t, name) > 1 THEN Raise("TypeError")
    ELSE Ok(t.cols[CHOOSE i \in Positions(t, name) : TRUE].vals)

RECURSIVE SumSeq(_)
SumSeq(s) == IF s = <<>> THEN 0 ELSE Head(s) + SumSeq(Tail(s))

MaxSeq(s) == CHOOSE x \in {s[i] : i \in 1..Len(s)} : \A j \in 1..Len(s) : s[j] <= x
MinSeq(s) == CHOOSE x \in {s[i] : i \in 1..Len(s)} : \A j \in 1..Len(s) : x <= s[j]

\* int(x): truncation toward zero of a number counted in units of 1/Scale
IntOf(x) == IF x >= 0 THEN x \div Scale ELSE -((-x) \div Scale)

\* s.iloc[0] and s.iloc[-1]
First(s) == s[1]
Last(s) == s[Len(s)]

NoMetrics == [last_close |-> 0, change |-> 0, pct_change |-> [num |-> 0, den |-> 1],
              high |-> 0, low |-> 0, volume |-> 0, set |-> FALSE]

\* Variant of PrevClose: the close of the row before the last one.
PrevRowClose(close) == IF Len(close) >= 2 THEN close[Len(close) - 1] ELSE close[1]

\* prev_close: the reference point of change and pct_change
PrevClose(close) == First(close)

\* pct_change = (change / prev_close) * 100, kept as the fraction num/den
calculate_metrics(t) ==
    LET close == Column(t, kClose)
        high == Column(t, kHigh)
        low == Column(t, kLow)
        volume == Column(t, kVolume)
    IN  IF close.err = "KeyError" THEN close
        ELSE IF NRows(t) = 0 THEN Raise("IndexError")
        ELSE IF ~close.ok THEN close
        ELSE IF PrevClose(close.val) = 0 THEN Raise("ZeroDivisionError")
        ELSE IF ~high.ok THEN high
        ELSE IF ~low.ok THEN low
        ELSE IF ~volume.ok THEN volume
        ELSE LET last_close == Last(close.val)
                 prev_close == PrevClose(close.val)
                 change == last_close - prev_close
             IN  Ok([last_close |-> last_close,
                     change |-> change,
                     pct_change |-> [num |-> change * 100, den |-> prev_close],
                     high |-> MaxSeq(high.val),
                     low |-> MinSeq(low.val),
                     volume |-> IntOf(SumSeq(volume.val)),
                     set |-> TRUE])

(***************************************************************************)
(* add_technical_indicators.                                               *)
(***************************************************************************)
NaN == [def |-> FALSE, num |-> 0, den |-> 1]
Frac(n, d) == [def |-> TRUE, num |-> n, den |-> d]

RECURSIVE Pow(_, _)
Pow(b, e) == IF e = 0 THEN 1 ELSE b * Pow(b, e - 1)

\* rolling(window, min_periods=window).mean()
sma_indicator(close, w) ==
    [i \in 1..Len(close) |->
        IF i >= w THEN Frac(SumSeq(SubSeq(close, i - w + 1, i)), w) ELSE NaN]

\* ewm(span=window, min_periods=window, adjust=False).mean(): numerator of
\* e[i] over the denominator (w+1)^(i-1), with e[1] = x[1] and
\* e[i] = (2*x[i] + (w-1)*e[i-1]) / (w+1)
RECURSIVE EmaNum(_, _, _)
EmaNum(close, w, i) ==
    IF i = 1 THEN close[1]
    ELSE 2 * close[i] * Pow(w + 1, i - 2) + (w - 1) * EmaNum(close, w, i - 1)

ema_indicator(close, w) ==
    [i \in 1..Len(close) |->
        IF i >= w THEN Frac(EmaNum(close, w, i), Pow(w + 1, i - 1)) ELSE NaN]

IndCol(name, vals) == [name |-> name, kind |-> "ind", tz |-> "-", vals |-> vals]

\* data[name] = series: the column is replaced when the label exists,
\* appended otherwise
SetColumn(t, name, vals) ==
    IF name \in NameSet(t)
    THEN [t EXCEPT !.cols = [i \in 1..Len(t.cols) |->
                              IF t.cols[i].name = name THEN IndCol(name, vals)
                              ELSE t.cols[i]]]
    ELSE [t EXCEPT !.cols = Append(t.cols, IndCol(name, vals))]

add_technical_indicators(t) ==
    LET close == Column(t, kClose)
    IN  IF ~close.ok THEN close
        ELSE Ok(SetColumn(SetColumn(t, kSMA20, sma_indicator(close.val, Window)),
                          kEMA20, ema_indicator(close.val, Window)))

(***************************************************************************)
(* Raw tables, as Fetch may return them.                                   *)
(***************************************************************************)
\* A row of market data; a shape names, per column, the label and the field
\* of the row the column carries.
Row(o, h, l, c, v) == [O |-> o, H |-> h, L |-> l, C |-> c, V |-> v]

Field(name, f) == [name |-> name, f |-> f]

MkIndex(kind, name, tz, n) ==
    [kind |-> kind, name |-> name, tz |-> tz, vals |-> [i \in 1..n |-> i]]

MkRaw(multi, shape, index, rows) ==
    [multi |-> multi,
     index |-> index,
     cols |-> [j \in 1..Len(shape) |->
                 NumCol(shape[j].name, [i \in 1..Len(rows) |-> rows[i][shape[j].f]])]]

\* yf.download's two-level columns (field, symbol)
TwoLevel(sym) ==
    <<Field(<<kClose, sym>>, "C"), Field(<<kHigh, sym>>, "H"),
      Field(<<kLow, sym>>, "L"), Field(<<kOpen, sym>>, "O"),
      Field(<<kVolume, sym>>, "V")>>

\* flat columns, with and without the adjusted close, and with a column missing
FlatOHLCV ==
    <<Field(kOpen, "O"), Field(kHigh, "H"), Field(kLow, "L"),
      Field(kClose, "C"), Field(kVolume, "V")>>
FlatAdj ==
    <<Field(kOpen, "O"), Field(kHigh, "H"), Field(kLow, "L"),
      Field(kClose, "C"), Field(kAdjClose, "C"), Field(kVolume, "V")>>
Without(shape, name) == SelectSeq(shape, LAMBDA fd : fd.name # name)
WithFirst(shape, name) == <<Field(name, "C")>> \o shape

Seqs(S, n) == UNION {[1..k -> S] : k \in 0..n}

(***************************************************************************)
(* The Normalizer on its own: SpecNorm applies process_data and            *)
(* normalize_column_names to a raw table, and then once more to the        *)
(* result.                                                                 *)
(***************************************************************************)
Symbols == {sXYZ, sLOW, sOpen, sALow, sBlank, NoName}

NormShapes ==
    {[multi |-> TRUE, shape |-> TwoLevel(sym)] : sym \in Symbols}
    \cup {[multi |-> FALSE, shape |-> sh] :
            sh \in {FlatOHLCV, FlatAdj, Without(FlatOHLCV, kClose),
                    WithFirst(FlatOHLCV, kDate), WithFirst(FlatOHLCV, kDatetime),
                    WithFirst(FlatOHLCV, kIndex), WithFirst(FlatOHLCV, kTs)}}

NormIndexes(n) ==
    {MkIndex("datetime", name, tz, n) :
        name \in {NoName, kDate, kDatetime, kTs}, tz \in {"naive", "UTC", "US/Eastern"}}
    \cup {MkIndex("object", NoName, "-", n)}

NormRows(n) == [i \in 1..n |-> Row(i + 1, i + 2, i, i + 1, i)]

NormInputs ==
    UNION {{MkRaw(s.multi, s.shape, ix, NormRows(n)) :
               s \in NormShapes, ix \in NormIndexes(n)} : n \in 0..MaxNormRows}

Null == Raise("unset")

InitNorm ==
    /\ raw \in NormInputs
    /\ pc = "n_start"
    /\ data = Null
    /\ again = Null
    /\ metrics = Null
    /\ chart_type = "Line"
    /\ status = "Idle"
    /\ stages = <<>>
    /\ fetched = Null
    /\ display = Null
    /\ wi = 1
    /\ watchlog = <<>>

\* data = process_data(data)
NormProcess ==
    /\ pc = "n_start"
    /\ data' = process_data(raw)
    /\ pc' = "n_processed"
    /\ UNCHANGED <<raw, again, metrics, chart_type, status, stages, fetched,
                   display, wi, watchlog>>

\* data = normalize_column_names(data)
NormCanon ==
    /\ pc = "n_processed"
    /\ data.ok
    /\ data' = Ok(normalize_column_names(data.val))
    /\ pc' = "n_done"
    /\ UNCHANGED <<raw, again, metrics, chart_type, status, stages, fetched,
                   display, wi, watchlog>>

\* the Normalizer applied to its own output
NormAgain ==
    /\ pc = "n_done"
    /\ again' = Normalizer(data.val)
    /\ pc' = "n_again"
    /\ UNCHANGED <<raw, data, metrics, chart_type, status, stages, fetched,
                   display, wi, watchlog>>

\* normalize_column_names applied to the Normalizer's output
CanonAgain ==
    /\ pc = "n_done"
    /\ again' = Ok(normalize_column_names(data.val))
    /\ pc' = "n_recanon"
    /\ UNCHANGED <<raw, data, metrics, chart_type, status, stages, fetched,
                   display, wi, watchlog>>

NextNorm == NormProcess \/ NormCanon \/ NormAgain \/ CanonAgain

SpecNorm == InitNorm /\ [][NextNorm]_vars

(***************************************************************************)
(* calculate_metrics on its own: SpecMetrics applies it to a canonical     *)
(* table, obtained by normalising a raw two-level table.                   *)
(***************************************************************************)
Lower(c, d) == IF c >= d THEN c - d ELSE 0

MetricRowSet ==
    {Row(c, c + d, Lower(c, d), c, v) : c \in 0..MaxVal, d \in 0..1, v \in {1, Scale}}

MetricInputs ==
    {Normalizer(MkRaw(TRUE, TwoLevel(sXYZ),
                      MkIndex("datetime", kDate, "naive", Len(rows)), rows)).val :
        rows \in Seqs(MetricRowSet, MaxMetricRows)}

InitMetrics ==
    /\ data \in MetricInputs
    /\ pc = "m_start"
    /\ raw = Null
    /\ again = Null
    /\ metrics = Null
    /\ chart_type = "Line"
    /\ status = "Idle"
    /\ stages = <<>>
    /\ fetched = Null
    /\ display = Null
    /\ wi = 1
    /\ watchlog = <<>>

MetricsCall ==
    /\ pc = "m_start"
    /\ metrics' = calculate_metrics(data)
    /\ pc' = "m_done"
    /\ UNCHANGED <<raw, data, again, chart_type, status, stages, fetched,
                   display, wi, watchlog>>

NextMetrics == MetricsCall

SpecMetrics == InitMetrics /\ [][NextMetrics]_vars

(***************************************************************************)
(* The script: the main-chart branch and the watchlist loop (Spec).        *)
(* A run of the script starts at a trigger (Streamlit reruns the script on *)
(* every interaction; the Update button is set on the run its click        *)
(* starts).  The tables and the metrics tuple of the main branch are not   *)
(* read after it, and are dropped at its end.                              *)
(***************************************************************************)
stock_symbols == <<sAAPL, sGOOGL, sAMZN, sMSFT>>

OrchRows == {Row(0, 1, 0, 0, 1), Row(2, 3, 1, 2, 3)}

MainShapes ==
    {[multi |-> TRUE, shape |-> TwoLevel(sXYZ)]}
    \cup {[multi |-> FALSE, shape |-> sh] :
            sh \in {FlatAdj, Without(FlatOHLCV, kClose), Without(FlatOHLCV, kVolume),
                    Without(FlatOHLCV, kOpen)}}

MainIndexes(n) ==
    {MkIndex("datetime", kDate, "naive", n), MkIndex("datetime", kDatetime, "UTC", n),
     MkIndex("object", NoName, "-", n)}

MainTables ==
    UNION {{MkRaw(s.multi, s.shape, ix, rows) :
               s \in MainShapes, ix \in MainIndexes(Len(rows))} :
           rows \in Seqs(OrchRows, MaxRows)}

WatchShapes(sym) ==
    {[multi |-> TRUE, shape |-> TwoLevel(sym)],
     [multi |-> FALSE, shape |-> Without(FlatOHLCV, kOpen)]}

WatchIndexes(n) ==
    {MkIndex("datetime", kDatetime, "UTC", n), MkIndex("object", NoName, "-", n)}

\* the rows of a watchlist table: any first row, then ordinary rows
WatchRows ==
    {<<>>} \cup {[i \in 1..n |-> IF i = 1 THEN r ELSE Row(2, 3, 1, 2, 3)] :
                   r \in OrchRows, n \in 1..MaxWatchRows}

WatchTables(sym) ==
    UNION {{MkRaw(s.multi, s.shape, ix, rows) :
               s \in WatchShapes(sym), ix \in WatchIndexes(Len(rows))} :
           rows \in WatchRows}

\* fetch_stock_data: the table yf.download returns, or the exception it raises
fetch_stock_data(tables) == {Raise("Exception")} \cup {Ok(t) : t \in tables}

NoDisplay == [insufficient |-> FALSE, downgrade |-> FALSE, error |-> "none",
              metric |-> FALSE, chart |-> "none", tables |-> 0]

NotFetched == [ok |-> FALSE, empty |-> TRUE, rows |-> 0]

Init ==
    /\ pc = "Idle"
    /\ raw = Null
    /\ data = NoTable
    /\ again = Null
    /\ metrics = NoMetrics
    /\ chart_type = "Candlestick"
    /\ status = "Idle"
    /\ stages = <<>>
    /\ fetched = NotFetched
    /\ display = NoDisplay
    /\ wi = 1
    /\ watchlog = <<>>

\* A rerun of the script: with the Update button clicked the main-chart
\* branch is entered, otherwise the script goes on to the watchlist.
Trigger(update, ct) ==
    /\ pc \in {"Idle", "Done", "Aborted"}
    /\ chart_type' = ct
    /\ pc' = IF update THEN "Fetch" ELSE "Watch"
    /\ status' = IF update THEN "Fetching" ELSE "Idle"
    /\ data' = NoTable
    /\ metrics' = NoMetrics
    /\ stages' = <<>>
    /\ fetched' = NotFetched
    /\ display' = NoDisplay
    /\ wi' = 1
    /\ watchlog' = <<>>
    /\ UNCHANGED <<raw, again>>

Rerun == \E update \in BOOLEAN, ct \in {"Candlestick", "Line"} : Trigger(update, ct)

\* Variant of ExceptHandler: the exception leaves the script.
ExceptHandlerUncaught(e) ==
    /\ status' = "Error"
    /\ display' = display
    /\ pc' = "Aborted"
    /\ data' = NoTable
    /\ metrics' = NoMetrics

\* except Exception as e: st.error(...); the script goes on after the branch
ExceptHandler(e) ==
    /\ status' = "Error"
    /\ display' = [display EXCEPT !.error = e]
    /\ pc' = "Watch"
    /\ data' = NoTable
    /\ metrics' = NoMetrics

\* Variant of Insufficient without the row-count test.
InsufficientEmptyOnly(t) == IsEmpty(t)

\* data.empty or len(data) < 2
Insufficient(t) == IsEmpty(t) \/ NRows(t) < MinRows

\* Variant of StageAfter: the indicators are added before the metrics are
\* computed.
StageAfterSwapped(s) ==
    CASE s = "Normalize" -> "Indicators"
      [] s = "Indicators" -> "Metrics"
      [] s = "Metrics" -> "Render"

\* The statement order of the else branch.
StageAfter(s) ==
    CASE s = "Normalize" -> "Metrics"
      [] s = "Metrics" -> "Indicators"
      [] s = "Indicators" -> "Render"

Stage(name, ok) == [stage |-> name, ok |-> ok]

MainFetch ==
    /\ pc = "Fetch"
    /\ \E r \in fetch_stock_data(MainTables) :
         /\ stages' = Append(stages, Stage("Fetch", r.ok))
         /\ IF ~r.ok
            THEN /\ ExceptHandler(r.err)
                 /\ fetched' = NotFetched
            ELSE /\ fetched' = [ok |-> TRUE, empty |-> IsEmpty(r.val), rows |-> NRows(r.val)]
                 /\ metrics' = NoMetrics
                 /\ IF Insufficient(r.val)
                    THEN /\ status' = "Empty"
                         /\ display' = [display EXCEPT !.insufficient = TRUE]
                         /\ pc' = "Watch"
                         /\ data' = NoTable
                    ELSE /\ status' = "Processing"
                         /\ display' = display
                         /\ pc' = "Normalize"
                         /\ data' = r.val
    /\ UNCHANGED <<raw, again, chart_type, wi, watchlog>>

MainNormalize ==
    /\ pc = "Normalize"
    /\ LET r == Normalizer(data)
       IN  /\ stages' = Append(stages, Stage("Normalize", r.ok))
           /\ IF r.ok
              THEN /\ data' = r.val
                   /\ pc' = StageAfter("Normalize")
                   /\ UNCHANGED <<status, display, metrics>>
              ELSE ExceptHandler(r.err)
    /\ UNCHANGED <<raw, again, chart_type, fetched, wi, watchlog>>

MainMetrics ==
    /\ pc = "Metrics"
    /\ LET r == calculate_metrics(data)
       IN  /\ stages' = Append(stages, Stage("Metrics", r.ok))
           /\ IF r.ok
              THEN /\ metrics' = r.val
                   /\ pc' = StageAfter("Metrics")
                   /\ UNCHANGED <<status, display, data>>
              ELSE ExceptHandler(r.err)
    /\ UNCHANGED <<raw, again, chart_type, fetched, wi, watchlog>>

MainIndicators ==
    /\ pc = "Indicators"
    /\ LET r == add_technical_indicators(data)
       IN  /\ stages' = Append(stages, Stage("Indicators", r.ok))
           /\ IF r.ok
              THEN /\ data' = r.val
                   /\ pc' = StageAfter("Indicators")
                   /\ UNCHANGED <<status, display, metrics>>
              ELSE ExceptHandler(r.err)
    /\ UNCHANGED <<raw, again, chart_type, fetched, wi, watchlog>>

\* Variant of UseCandlestick: more than CandleMin rows are asked for.
UseCandlestickStrict(ct, n) == ct = "Candlestick" /\ n > CandleMin

\* chart_type == 'Candlestick' and len(data) >= 5
UseCandlestick(ct, n) == ct = "Candlestick" /\ n >= CandleMin

HasAll(t, names) == \A k \in names : k \in NameSet(t)

\* What the rendering statements put on the page for table t, and the
\* exception that ends them, if any: the metric widgets, the chart (after
\* the downgrade warning, if any), then the two tables.
Render(t, ct) ==
    LET candle == UseCandlestick(ct, NRows(t))
        chartOk == IF candle
                   THEN HasAll(t, {kDatetime, kOpen, kHigh, kLow, kClose})
                   ELSE HasAll(t, {kDatetime, kClose})
        table1 == HasAll(t, {kDatetime, kOpen, kHigh, kLow, kClose, kVolume})
        table2 == HasAll(t, {kDatetime, kSMA20, kEMA20})
    IN  [insufficient |-> FALSE,
         metric |-> TRUE,
         downgrade |-> ~candle /\ ct = "Candlestick",
         chart |-> IF ~chartOk THEN "none"
                   ELSE IF candle THEN "Candlestick" ELSE "Line",
         tables |-> IF ~chartOk \/ ~table1 THEN 0 ELSE IF ~table2 THEN 1 ELSE 2,
         error |-> IF chartOk /\ table1 /\ table2 THEN "none" ELSE "KeyError"]

MainRender ==
    /\ pc = "Render"
    /\ LET d == Render(data, chart_type)
       IN  /\ stages' = Append(stages, Stage("Render", d.error = "none"))
           /\ display' = d
           /\ status' = IF d.error = "none" THEN "Rendered" ELSE "Error"
    /\ pc' = "Watch"
    /\ data' = NoTable
    /\ metrics' = NoMetrics
    /\ UNCHANGED <<raw, again, chart_type, fetched, wi, watchlog>>

\* Variant of WatchGate: the test of the main branch.
WatchGateMinRows(t) == ~Insufficient(t)

\* if not real_time_data.empty
WatchGate(t) == ~IsEmpty(t)

\* The body of the try of the watchlist loop: the last price and its change
\* against the first open.
WatchDelta(t) ==
    LET close == Column(t, kClose)
        open == Column(t, kOpen)
    IN  IF ~close.ok THEN close
        ELSE IF ~open.ok THEN open
        ELSE IF First(open.val) = 0 THEN Raise("ZeroDivisionError")
        ELSE Ok([last_price |-> Last(close.val),
                 change |-> Last(close.val) - First(open.val),
                 pct_change |-> [num |-> (Last(close.val) - First(open.val)) * 100,
                                 den |-> First(open.val)]])

Entry(sym, f, normalizer, delta, shown, raised) ==
    [symbol |-> sym,
     fetch_ok |-> f.ok,
     empty |-> IF f.ok THEN IsEmpty(f.val) ELSE TRUE,
     short |-> IF f.ok THEN NRows(f.val) < MinRows ELSE TRUE,
     normalizer |-> normalizer,
     delta |-> delta,
     shown |-> shown,
     raised |-> raised]

\* One iteration of the watchlist loop on fetch outcome f: what it invoked,
\* what it showed, and the exception that left it, if any.
WatchIteration(sym, f) ==
    IF ~f.ok THEN Entry(sym, f, FALSE, FALSE, "none", f.err)
    ELSE IF ~WatchGate(f.val) THEN Entry(sym, f, FALSE, FALSE, "none", "none")
    ELSE LET n == Normalizer(Flatten(f.val))
         IN  IF ~n.ok THEN Entry(sym, f, TRUE, FALSE, "none", n.err)
             ELSE IF WatchDelta(n.val).ok
                  THEN Entry(sym, f, TRUE, TRUE, "metric", "none")
                  ELSE Entry(sym, f, TRUE, TRUE, "warning", "none")

WatchSymbol ==
    /\ pc = "Watch"
    /\ wi <= Len(stock_symbols)
    /\ \E f \in fetch_stock_data(WatchTables(stock_symbols[wi])) :
         LET e == WatchIteration(stock_symbols[wi], f)
         IN  /\ watchlog' = Append(watchlog, e)
             /\ pc' = IF e.raised = "none" THEN "Watch" ELSE "Aborted"
             /\ wi' = IF e.raised = "none" THEN wi + 1 ELSE wi
    /\ UNCHANGED <<raw, data, again, metrics, chart_type, status, stages, fetched,
                   display>>

\* The end of the script, after the loop.
WatchEnd ==
    /\ pc = "Watch"
    /\ wi > Len(stock_symbols)
    /\ pc' = "Done"
    /\ UNCHANGED <<raw, data, again, metrics, chart_type, status, stages, fetched,
                   display, wi, watchlog>>

Next ==
    \/ Rerun
    \/ MainFetch
    \/ MainNormalize
    \/ MainMetrics
    \/ MainIndicators
    \/ MainRender
    \/ WatchSymbol
    \/ WatchEnd

Spec == Init /\ [][Next]_vars

(***************************************************************************)
(* Properties of the script (Spec).                                        *)
(***************************************************************************)
StageNames == [i \in 1..Len(stages) |-> stages[i].stage]
StageOrder == <<"Fetch", "Normalize", "Metrics", "Indicators", "Render">>
WatchSymbols == [i \in 1..Len(watchlog) |-> watchlog[i].symbol]
ScriptEnded == pc \in {"Done", "Aborted"}

\* a watchlist iteration in which Fetch, the Normalizer or the delta
\* computation failed
Failed(e) == ~e.fetch_ok \/ e.raised # "none" \/ e.shown = "warning"

\* C1: a failure while handling one watchlist symbol (in Fetch, in the
\* Normalizer or in the delta computation) never aborts the loop: when the
\* script has ended all four symbols were attempted, in the fixed order,
\* and every failure was reported as a warning for its symbol.
C1_LoopNeverAborts ==
    /\ ScriptEnded => WatchSymbols = stock_symbols
    /\ \A i \in 1..Len(watchlog) :
         Failed(watchlog[i]) => (watchlog[i].shown = "warning" /\ watchlog[i].raised = "none")

\* C2: on a main-chart trigger, a fetched table that is empty or has fewer
\* than 2 rows halts the run at InsufficientData: the warning is signalled
\* and no stage after Fetch (Normalizer, metrics, indicators, rendering) is
\* invoked in that run.
C2_InsufficientHalts ==
    (fetched.ok /\ (fetched.empty \/ fetched.rows < 2))
    => /\ status = "Empty"
       /\ display.insufficient
       /\ StageNames = <<"Fetch">>
       /\ display.error = "none"
       /\ display.chart = "none"
       /\ display.tables = 0
       /\ ~display.metric
       /\ ~metrics.set
       /\ data = NoTable

C2_Witness ==
    /\ fetched.ok
    /\ ~fetched.empty
    /\ fetched.rows = 1
    /\ status = "Empty"
    /\ display.insufficient
    /\ pc = "Watch"

\* the main-chart run failed in Fetch, Normalizer, Metrics or Indicators
MainFailed ==
    /\ stages # <<>>
    /\ ~Last(stages).ok
    /\ Last(stages).stage \in {"Fetch", "Normalize", "Metrics", "Indicators"}

\* C3: a failure raised in Fetch, Normalizer, Metrics Calculator or
\* Indicator Engine moves the main-chart run to Error: the message is
\* surfaced, no chart and no table is rendered, and the script goes on: the
\* watchlist loop runs afterwards and the next trigger is accepted.
C3_ErrorBoundary ==
    MainFailed
    => /\ status = "Error"
       /\ display.error # "none"
       /\ display.chart = "none"
       /\ display.tables = 0
       /\ pc \in {"Watch", "Done", "Aborted"}
       /\ ScriptEnded => (watchlog # <<>> /\ ENABLED Rerun)

C3_Witness ==
    /\ status = "Error"
    /\ Last(stages) = Stage("Metrics", FALSE)
    /\ display.error = "ZeroDivisionError"
    /\ pc = "Done"
    /\ WatchSymbols = stock_symbols

\* C4: when a chart is rendered, it is a candlestick chart if and only if
\* the requested style is Candlestick and the table has at least 5 rows;
\* with style Candlestick and fewer than 5 rows a line chart is rendered
\* and the downgrade is signalled; with style Line a line chart is rendered
\* and no downgrade is signalled.  A run that ends Rendered rendered a chart.
C4_ChartPolicy ==
    /\ status = "Rendered" => display.chart # "none"
    /\ display.chart # "none"
       => /\ display.chart = "Candlestick"
             <=> (chart_type = "Candlestick" /\ fetched.rows >= 5)
          /\ (chart_type = "Candlestick" /\ fetched.rows < 5)
             => (display.chart = "Line" /\ display.downgrade)
          /\ chart_type = "Line" => (display.chart = "Line" /\ ~display.downgrade)

C4_Witness ==
    /\ status = "Rendered"
    /\ chart_type = "Candlestick"
    /\ fetched.rows = 3
    /\ display.chart = "Line"
    /\ display.downgrade

\* C9: within one main-chart run the stages execute in the order Fetch,
\* Normalize, Metrics, Indicators, Render, each at most once and none
\* before its predecessor succeeded; the metrics tuple is computed before
\* the indicator columns are added, and nothing is rendered unless the four
\* earlier stages succeeded.
C9_StageOrder ==
    /\ Len(stages) <= Len(StageOrder)
    /\ StageNames = SubSeq(StageOrder, 1, Len(stages))
    /\ \A i \in 1..(Len(stages) - 1) : stages[i].ok
    /\ kSMA20 \in NameSet(data) => metrics.set
    /\ (display.chart # "none" \/ display.metric) => Len(stages) = Len(StageOrder)

C9_Witness ==
    /\ pc = "Render"
    /\ StageNames = <<"Fetch", "Normalize", "Metrics", "Indicators">>
    /\ metrics.set
    /\ kSMA20 \in NameSet(data)
    /\ kEMA20 \in NameSet(data)

\* C10 as stated: the watchlist loop applies the gate of the main branch: a
\* symbol whose fetch returns an empty table or fewer than 2 rows is handed
\* neither to the Normalizer nor to the delta computation.
C10_SameGate ==
    \A i \in 1..Len(watchlog) :
        (watchlog[i].fetch_ok /\ (watchlog[i].empty \/ watchlog[i].short))
        => (~watchlog[i].normalizer /\ ~watchlog[i].delta)

\* C10 amended: the gate of the watchlist loop is emptiness alone: a symbol
\* whose fetch returns an empty table is handed neither to the Normalizer
\* nor to the delta computation; every non-empty table, one with a single
\* row included, is handed to the Normalizer.
C10_EmptyGate ==
    \A i \in 1..Len(watchlog) :
        watchlog[i].fetch_ok
        => /\ watchlog[i].empty => (~watchlog[i].normalizer /\ ~watchlog[i].delta)
           /\ ~watchlog[i].empty => watchlog[i].normalizer

C10_Witness ==
    /\ Len(watchlog) >= 2
    /\ watchlog[1].fetch_ok /\ watchlog[1].empty /\ ~watchlog[1].normalizer
    /\ watchlog[2].fetch_ok /\ ~watchlog[2].empty /\ watchlog[2].short
    /\ watchlog[2].normalizer /\ watchlog[2].delta

(***************************************************************************)
(* Properties of the Normalizer (SpecNorm).                                *)
(***************************************************************************)
Keywords == {kOpen, kHigh, kLow, kClose, kVolume}

\* t has two-level (field, symbol) columns: the five fields, one symbol
TwoLevelOHLCV(t) ==
    /\ t.multi
    /\ Len(t.cols) = 5
    /\ {t.cols[i].name[1] : i \in 1..5} = Keywords
    /\ \A i \in 1..5 : t.cols[i].name[2] = t.cols[1].name[2]

RawSymbol(t) == t.cols[1].name[2]

CleanSymbol(sym) == \A k \in Keywords : ~Contains(sym, k)

FlatCanonical(t) == ~t.multi /\ \A k \in Keywords : Count(t, k) = 1

\* C5 as stated: for two-level (field, symbol) columns and ANY symbol
\* string, the Normalizer yields flat labels in which each of Open, High,
\* Low, Close, Volume appears exactly once.
C5_AnySymbol ==
    (pc = "n_done" /\ TwoLevelOHLCV(raw)) => FlatCanonical(data.val)

\* C5 amended: for a raw table with a timestamp index and two-level
\* (field, symbol) columns whose symbol string contains none of the
\* substrings Open, High, Low, Close, Volume, the Normalizer succeeds and
\* yields flat labels in which each of the five canonical names appears
\* exactly once.
C5_CleanSymbol ==
    (/\ TwoLevelOHLCV(raw)
     /\ raw.index.kind = "datetime"
     /\ CleanSymbol(RawSymbol(raw)))
    => /\ pc = "n_processed" => data.ok
       /\ pc = "n_done" => FlatCanonical(data.val)

C5_Witness ==
    /\ pc = "n_done"
    /\ TwoLevelOHLCV(raw)
    /\ RawSymbol(raw) = sLOW
    /\ Names(data.val) = <<kDatetime, kClose, kHigh, kLow, kOpen, kVolume>>

\* the column the promoted timestamp index of raw table r becomes
PromotedIndex(r) == TsCol(kDatetime, "US/Eastern", r.index.vals)

HoldsIndex(out, r) ==
    /\ Count(out, kDatetime) = 1
    /\ \A i \in Positions(out, kDatetime) : out.cols[i] = PromotedIndex(r)

\* C8 as stated: after the Normalizer ran, whatever the index name and
\* whatever the other columns, exactly one column is named Datetime and it
\* holds the promoted timestamp index.
C8_AnyColumns == pc = "n_done" => HoldsIndex(data.val, raw)

\* C8 amended: after the Normalizer ran on a raw table none of whose data
\* columns is labelled Date or Datetime, whatever the name of the timestamp
\* index, exactly one column is named Datetime and it holds the promoted
\* timestamp index (converted to US/Eastern).
C8_NoDateColumns ==
    (/\ pc = "n_done"
     /\ kDate \notin NameSet(Flatten(raw))
     /\ kDatetime \notin NameSet(Flatten(raw)))
    => HoldsIndex(data.val, raw)

C8_Witness ==
    /\ pc = "n_done"
    /\ raw.index.name = kTs
    /\ raw.index.tz = "naive"
    /\ NRows(raw) >= 1
    /\ data.val.cols[1] = PromotedIndex(raw)
    /\ Count(data.val, kDatetime) = 1

\* C6 as stated: process_data followed by normalize_column_names, applied
\* to the Normalizer's own output, succeeds and yields the same table.
C6_Idempotent == pc = "n_again" => (again.ok /\ again.val = data.val)

\* C6 amended: normalize_column_names applied to the Normalizer's output
\* yields the same table (same columns in the same order, same rows, no
\* label changed, no column added); process_data applied to that output,
\* whose index is no longer a timestamp index, raises AttributeError, so
\* the whole Normalizer cannot be run a second time.
C6_CanonIdempotent ==
    /\ pc = "n_recanon" => (again.ok /\ again.val = data.val)
    /\ pc = "n_again" => (~again.ok /\ again.err = "AttributeError")

C6_Witness ==
    /\ pc = "n_recanon"
    /\ FlatCanonical(data.val)
    /\ Count(data.val, kDatetime) = 1
    /\ NRows(data.val) >= 1
    /\ again = data

(***************************************************************************)
(* Properties of calculate_metrics (SpecMetrics).                          *)
(***************************************************************************)
ValsOf(t, name) == t.cols[CHOOSE i \in Positions(t, name) : TRUE].vals

\* C7: for every canonical table with N >= 1 rows and non-zero first
\* close, calculate_metrics returns last_close = Close[N-1],
\* change = Close[N-1] - Close[0], pct_change = change / Close[0] * 100,
\* high = max of High, low = min of Low, and volume = the sum of Volume
\* truncated to an integer.
C7_Metrics ==
    (pc = "m_done" /\ NRows(data) >= 1 /\ ValsOf(data, kClose)[1] # 0)
    => LET N == NRows(data)
           close == ValsOf(data, kClose)
           high == ValsOf(data, kHigh)
           low == ValsOf(data, kLow)
           total == SumSeq(ValsOf(data, kVolume))
           m == metrics.val
       IN  /\ metrics.ok
           /\ m.last_close = close[N]
           /\ m.change = close[N] - close[1]
           /\ m.pct_change.den # 0
           /\ m.pct_change.num * close[1] = (close[N] - close[1]) * 100 * m.pct_change.den
           /\ \A i \in 1..N : high[i] <= m.high
           /\ \E i \in 1..N : high[i] = m.high
           /\ \A i \in 1..N : m.low <= low[i]
           /\ \E i \in 1..N : low[i] = m.low
           /\ m.volume * Scale <= total
           /\ total < (m.volume + 1) * Scale

\* three rows whose previous-row close differs from the first close, and a
\* volume total that is no whole number
C7_Witness ==
    /\ pc = "m_done"
    /\ NRows(data) = 3
    /\ ValsOf(data, kClose)[1] # ValsOf(data, kClose)[2]
    /\ ValsOf(data, kClose)[1] # 0
    /\ metrics.ok
    /\ metrics.val.change # 0
    /\ SumSeq(ValsOf(data, kVolume)) % Scale # 0

====
